---- MODULE Spec2Model ----
(***************************************************************************)
(* Model of the two Nx executors of nx-kuritkaj:                           *)
(*   libs/nx-plugin/local-npm-repo/src/executors/start-repo/executor.ts    *)
(*     NpmConfManager (snapshot / restore of npm configuration) and the    *)
(*     registry-session runExecutor;                                       *)
(*   libs/nx-plugin/bundle-deps/src/executors/run/executor.ts              *)
(*     copyFolderSync, hasDependency, updateDependencies2 and the bundling *)
(*     runExecutor.                                                        *)
(***************************************************************************)
EXTENDS Integers, Sequences, FiniteSets, TLC

VARIABLES
    \* ---- npm configuration and NpmConfManager (start-repo/executor.ts) ----
    npmrc,                       \* the live .npmrc files: location -> key -> value
    originalConf,                \* NpmConfManager.originalConf (read once, at construction)
    originalValuesForLocations,  \* NpmConfManager.originalValuesForLocations
    captures,                    \* history: number of locationValues.set calls per (key, location)
    preSet,                      \* history: live value of a pair just before its first set call
    setCount,                    \* history: client set calls per (key, location)
    written,                     \* history: pairs whose npm config command has run to completion
    lastCall,                    \* history: the last manager call and whether it returned
    execThrew,                   \* history: some execSync has thrown
    nCalls,                      \* number of client calls made so far
    \* ---- the registry session (start-repo/executor.ts, runExecutor) ----
    pc,                          \* where runExecutor is
    procState,                   \* the Node process: "running", "exited" (normal exit), "killed"
    options,                     \* StartRepoExecutorSchema: location, port
    scopes,                      \* getWorkspaceNpmScopes(context.projectGraph)
    npmRegistryConfig,           \* getNpmRegistriesConfig(...)
    configFile,                  \* .verdaccio/generated_config.yaml: Undefined or its content
    cfgIdx,                      \* configureNpm: index of the next conf.set call
    listeners,                   \* process.on: events that have processExitListener registered
    childProcess,                \* module-level `childProcess`: FALSE (undefined) or TRUE (forked)
    childEmitted,                \* events the forked child has emitted, in order
    launch,                      \* the promise of startVerdaccio
    result,                      \* what the promise of runExecutor settled to
    preSession,                  \* history: npmrc when runExecutor was invoked
    nSignals,                    \* history: signals delivered to the process
    listenerRuns,                \* history: firings of processExitListener, with what each did
    childSignals,                \* history: what childProcess.kill was called with, in order
    \* ---- the file system and the bundling run (bundle-deps/.../executor.ts) ----
    fs,                          \* the file tree: the root directory node
    fsBefore,                    \* history: fs when the run (or the copy) began
    copied,                      \* history: destination paths copyFileSync has written
    copyThrew,                   \* history: a copy has thrown, and in which step
    pcB,                         \* where the bundling run (or the copy) is
    graphDeps,                   \* calculateProjectDependencies: [...dependencies, ...topLevelDependencies]
    helperDeps,                  \* what getHelperDependenciesFromProjectGraph gives for the project
    projectInfo,                 \* projectInfoPlusPlus: libDeps, npmDeps, publishPackageJson
    packageJson,                 \* the manifest updateDependencies2 builds in memory
    libIdx,                      \* next element of libDeps.forEach
    npmIdx,                      \* next element of npmDeps.forEach
    appended,                    \* history: names pushed to bundleDependencies by this run
    manifestWrites,              \* history: writeJsonFile calls of this run
    outcomeB,                    \* what the bundling runExecutor's promise settled to
    \* ---- one process running runExecutor of start-repo more than once ----
    invocations,                 \* the invocations so far: manager, listener, child of each
    handle,                      \* the invocation whose child `childProcess` refers to (0: none yet)
    killed                       \* history: kill calls that reached a child: the child, the argument

confVars == <<npmrc, originalConf, originalValuesForLocations, captures, preSet,
              setCount, written, lastCall, execThrew, nCalls>>

sessVars == <<pc, procState, options, scopes, npmRegistryConfig, configFile, cfgIdx,
              listeners, childProcess, childEmitted, launch, result, preSession,
              nSignals, listenerRuns, childSignals>>

fsVars == <<fs, fsBefore, copied, copyThrew, pcB>>
runVars == <<graphDeps, helperDeps, projectInfo, packageJson, libIdx, npmIdx, appended,
             manifestWrites, outcomeB>>
bundleVars == <<fsVars, runVars>>

processVars == <<invocations, handle, killed>>

vars == <<confVars, sessVars, bundleVars, processVars>>

----------------------------------------------------------------------------
(* Bounds of the model.                                                     *)

\* client calls made on one NpmConfManager
MaxCalls == 3
\* execSync invocations that succeed before one throws, in one restore
MaxExecOk == 1
\* signals delivered to the process during one session
MaxSignals == 1
\* copyFileSync calls that succeed before one throws, in one copyFolderSync
MaxCopyOk == 1
\* length of the dependency list the project graph gives for the project
MaxDeps == 2

----------------------------------------------------------------------------
(* JavaScript values.                                                       *)

\* `undefined`: what config-chain's get returns for a key a location lacks
Undefined == "<undefined>"

\* `!value` (executor.ts:144): undefined and the empty string are both falsy
Falsy(v) == v \in {Undefined, ""}

\* ES6 Map as the sequence of its entries, in insertion order
MapHas(m, k) == \E i \in 1..Len(m) : m[i].k = k
MapGet(m, k) == m[CHOOSE i \in 1..Len(m) : m[i].k = k].v
MapSet(m, k, v) ==
    IF MapHas(m, k)
    THEN [i \in 1..Len(m) |-> IF m[i].k = k THEN [k |-> k, v |-> v] ELSE m[i]]
    ELSE Append(m, [k |-> k, v |-> v])
MapKeys(m) == [i \in 1..Len(m) |-> m[i].k]

----------------------------------------------------------------------------
(* npm configuration.                                                       *)

registryKey == "registry"
scopedRegistryKey == "@acme:registry"
authTokenKey == "//localhost:4873/:_authToken"
localRegistry == "http://localhost:4873/"
authTokenValue == "secretVerdaccioToken"
upstreamRegistry == "https://registry.npmjs.org/"

Keys == {registryKey, scopedRegistryKey}
Locations == {"user", "project"}
Pairs == Keys \X Locations

\* what a location's .npmrc may hold for a key before the manager exists:
\* nothing, an empty value (`registry=`), or an upstream URL
InitValues == {Undefined, "", upstreamRegistry}
\* what a client passes to set (restore itself passes snapshot values, falsy ones included)
SetValues == {localRegistry, "http://other:1/"}

NotYet == "<not yet>"
NoFail == -1

----------------------------------------------------------------------------
(* NpmConfManager.  An operator takes and returns the manager together     *)
(* with the npm configuration it acts on:                                   *)
(*   rc   the live configuration, ovl  originalValuesForLocations,          *)
(*   orig originalConf,           cap  locationValues.set calls so far,     *)
(*   fuel execSync calls that still succeed (NoFail: all of them),          *)
(*   threw an execSync has thrown and the exception is propagating.         *)

\* get(name, location): reads originalConf, never the live files
get(orig, name, location) == orig[location][name]

getLocationOriginalValues(ovl, location) ==
    IF MapHas(ovl, location) THEN ovl ELSE MapSet(ovl, location, <<>>)

storeOriginalValue_NoHasCheck(c, name, location) ==
    LET ovl1 == getLocationOriginalValues(c.ovl, location)
        locationValues == MapGet(ovl1, location)
    IN [c EXCEPT !.ovl = MapSet(ovl1, location,
                                MapSet(locationValues, name, get(c.orig, name, location))),
                 !.cap[<<name, location>>] = @ + 1]

storeOriginalValue_Live(c, name, location) ==
    LET ovl1 == getLocationOriginalValues(c.ovl, location)
        locationValues == MapGet(ovl1, location)
    IN [c EXCEPT !.ovl = MapSet(ovl1, location,
                                MapSet(locationValues, name, c.rc[location][name])),
                 !.cap[<<name, location>>] = @ + 1]

storeOriginalValue(c, name, location) ==
    LET ovl1 == getLocationOriginalValues(c.ovl, location)
        locationValues == MapGet(ovl1, location)
    IN IF MapHas(locationValues, name)
       THEN [c EXCEPT !.ovl = ovl1]
       ELSE [c EXCEPT !.ovl = MapSet(ovl1, location,
                                     MapSet(locationValues, name, get(c.orig, name, location))),
                      !.cap[<<name, location>>] = @ + 1]

\* execSync(`npm config set k=v --location l`) / execSync(`npm config delete k ...`):
\* writes the location's file, or throws and leaves it as it was
execSync(c, name, location, newValue) ==
    IF c.fuel = 0
    THEN [c EXCEPT !.threw = TRUE]
    ELSE [c EXCEPT !.rc[location][name] = newValue,
                   !.fuel = IF @ = NoFail THEN NoFail ELSE @ - 1]

set(c, name, value, location) ==
    LET c1 == storeOriginalValue(c, name, location)
    IN IF Falsy(value)
       THEN execSync(c1, name, location, Undefined)
       ELSE execSync(c1, name, location, value)

RECURSIVE restoreEntries(_, _, _)
restoreEntries(c, entries, location) ==
    IF entries = <<>> \/ c.threw
    THEN c
    ELSE restoreEntries(set(c, Head(entries).k, Head(entries).v, location),
                        Tail(entries), location)

restore(c, location) ==
    LET c1 == [c EXCEPT !.ovl = getLocationOriginalValues(@, location)]
    IN restoreEntries(c1, MapGet(c1.ovl, location), location)

RECURSIVE restoreLocs(_, _)
restoreLocs(c, locs) ==
    IF locs = <<>> \/ c.threw
    THEN c
    ELSE restoreLocs(restore(c, Head(locs)), Tail(locs))

restoreAll(c) == restoreLocs(c, MapKeys(c.ovl))

\* the manager and the configuration as the operators take them
Mgr(fuel) ==
    [rc |-> npmrc, orig |-> originalConf, ovl |-> originalValuesForLocations,
     cap |-> captures, fuel |-> fuel, threw |-> FALSE]

StoreMgr(c) ==
    /\ npmrc' = c.rc
    /\ originalValuesForLocations' = c.ovl
    /\ captures' = c.cap
    /\ execThrew' = (execThrew \/ c.threw)
    /\ UNCHANGED originalConf

\* pairs that have a snapshot entry, and the entry
Captured(p) ==
    /\ MapHas(originalValuesForLocations, p[2])
    /\ MapHas(MapGet(originalValuesForLocations, p[2]), p[1])
Snapshot(p) == MapGet(MapGet(originalValuesForLocations, p[2]), p[1])

\* no registry session in this process
SessIdle ==
    /\ pc = "idle"
    /\ procState = "running"
    /\ options = [location |-> "user", port |-> 4873]
    /\ scopes = <<>>
    /\ npmRegistryConfig = <<>>
    /\ configFile = Undefined
    /\ cfgIdx = 1
    /\ listeners = {}
    /\ childProcess = FALSE
    /\ childEmitted = <<>>
    /\ launch = "none"
    /\ result = [state |-> "pending"]
    /\ preSession = npmrc
    /\ nSignals = 0
    /\ listenerRuns = <<>>
    /\ childSignals = <<>>

\* runExecutor of start-repo is invoked at most once in this process
ProcessIdle ==
    /\ invocations = <<>>
    /\ handle = 0
    /\ killed = <<>>

----------------------------------------------------------------------------
(* The file system.  A node is a file with its data, a directory with its  *)
(* entries, or nothing; a path is the sequence of its segments.             *)

NoNode == [kind |-> "none"]
File(data) == [kind |-> "file", data |-> data]
Dir(entries) == [kind |-> "dir", entries |-> entries]
EmptyDir == Dir([n \in {} |-> NoNode])

\* every name a directory entry has in the model, in readdirSync's order
NameOrder ==
    <<"@acme", "Bad_Lib", "a", "b", "dist", "from", "index.js", "libs", "lodash",
      "node_modules", "package.json", "publish", "to", "ui">>

RECURSIVE NodeAt(_, _)
NodeAt(node, path) ==
    IF path = <<>> THEN node
    ELSE IF node.kind = "dir" /\ Head(path) \in DOMAIN node.entries
         THEN NodeAt(node.entries[Head(path)], Tail(path))
         ELSE NoNode

\* the tree with `new` at path; missing directories on the way are created
RECURSIVE PutAt(_, _, _)
PutAt(node, path, new) ==
    IF path = <<>> THEN new
    ELSE LET entries == IF node.kind = "dir" THEN node.entries ELSE EmptyDir.entries
             child == IF Head(path) \in DOMAIN entries THEN entries[Head(path)] ELSE NoNode
         IN Dir([n \in DOMAIN entries \cup {Head(path)} |->
                   IF n = Head(path) THEN PutAt(child, Tail(path), new) ELSE entries[n]])

\* some proper prefix of the path is a file
RECURSIVE FileOnTheWay(_, _)
FileOnTheWay(node, path) ==
    IF path = <<>> THEN FALSE
    ELSE IF node.kind = "file" THEN TRUE
    ELSE IF node.kind = "dir" /\ Head(path) \in DOMAIN node.entries
         THEN FileOnTheWay(node.entries[Head(path)], Tail(path))
         ELSE FALSE

directoryExists(tree, path) == NodeAt(tree, path).kind = "dir"

\* lstatSync(path).isFile()
isFile(tree, path) == NodeAt(tree, path).kind = "file"

\* readdirSync(path): the names in the directory
readdirSync(tree, path) ==
    SelectSeq(NameOrder, LAMBDA n : n \in DOMAIN NodeAt(tree, path).entries)

\* the files under a node: the set of <<relative path, data>>
RECURSIVE FilesUnder(_)
FilesUnder(node) ==
    IF node.kind = "file" THEN {<<(<<>>), node.data>>}
    ELSE IF node.kind = "dir"
         THEN UNION {{<<(<<n>>) \o f[1], f[2]>> : f \in FilesUnder(node.entries[n])} :
                        n \in DOMAIN node.entries}
         ELSE {}

----------------------------------------------------------------------------
(* copyFolderSync (bundle-deps executor.ts:339-357).  The operators take   *)
(* and return  [tree, fuel, threw, copied]:  the file tree, the number of   *)
(* copyFileSync calls that still succeed (NoFail: all), whether an error    *)
(* is propagating, and the destination paths written so far.                *)

\* createDirectory(to): mkdirSync(to, {recursive: true}); throws when the
\* path, or one of its ancestors, is a file
createDirectory(st, to) ==
    IF FileOnTheWay(st.tree, to) \/ isFile(st.tree, to)
    THEN [st EXCEPT !.threw = TRUE]
    ELSE [st EXCEPT !.tree = PutAt(@, to, EmptyDir)]

\* copyFileSync(src, dst): dst becomes a file with the data of src; throws
\* when the copy fails or when dst is a directory
copyFileSync(st, src, dst) ==
    IF st.fuel = 0 \/ directoryExists(st.tree, dst)
    THEN [st EXCEPT !.threw = TRUE]
    ELSE [st EXCEPT !.tree = PutAt(@, dst, File(NodeAt(st.tree, src).data)),
                    !.fuel = IF @ = NoFail THEN NoFail ELSE @ - 1,
                    !.copied = @ \cup {dst}]

RECURSIVE copyFolderSync(_, _, _)
RECURSIVE copyElements(_, _, _, _)

copyElement_FilesOnly(st, from, to, element) ==
    IF isFile(st.tree, from \o <<element>>)
    THEN copyFileSync(st, from \o <<element>>, to \o <<element>>)
    ELSE st

copyElement(st, from, to, element) ==
    IF isFile(st.tree, from \o <<element>>)
    THEN copyFileSync(st, from \o <<element>>, to \o <<element>>)
    ELSE copyFolderSync(st, from \o <<element>>, to \o <<element>>)

copyElements(st, from, to, elements) ==
    IF elements = <<>> \/ st.threw THEN st
    ELSE copyElements(copyElement(st, from, to, Head(elements)), from, to, Tail(elements))

copyFolderSync(st, from, to) ==
    LET st1 == IF directoryExists(st.tree, to) THEN st ELSE createDirectory(st, to)
    IN IF st1.threw THEN st1
       ELSE IF ~directoryExists(st1.tree, from) THEN [st1 EXCEPT !.threw = TRUE]
       ELSE copyElements(st1, from, to, readdirSync(st1.tree, from))

Fs(fuel) == [tree |-> fs, fuel |-> fuel, threw |-> FALSE, copied |-> copied]

CopyFuel == {NoFail} \cup 0..MaxCopyOk

\* no bundling run in this process
RunIdle ==
    /\ graphDeps = <<>>
    /\ helperDeps = <<>>
    /\ projectInfo = Undefined
    /\ packageJson = Undefined
    /\ libIdx = 1
    /\ npmIdx = 1
    /\ appended = <<>>
    /\ manifestWrites = 0
    /\ outcomeB = [state |-> "pending"]

\* no copy and no bundling run in this process
BundleIdle ==
    /\ fs = EmptyDir
    /\ fsBefore = EmptyDir
    /\ copied = {}
    /\ copyThrew = "no"
    /\ pcB = "idle"
    /\ RunIdle

----------------------------------------------------------------------------
(* A client of one NpmConfManager: constructs it, then calls set, restore  *)
(* and restoreAll in any order.                                             *)

\* constructor (executor.ts:126): originalConf = npmConf().config
\* no NpmConfManager in this process: an empty npm configuration, untouched
ConfIdle ==
    /\ npmrc = [l \in Locations |-> [k \in Keys |-> Undefined]]
    /\ originalConf = npmrc
    /\ originalValuesForLocations = <<>>
    /\ captures = [p \in Pairs |-> 0]
    /\ preSet = [p \in Pairs |-> NotYet]
    /\ setCount = [p \in Pairs |-> 0]
    /\ written = {}
    /\ lastCall = [op |-> "new", location |-> "", ok |-> TRUE]
    /\ execThrew = FALSE
    /\ nCalls = 0

ConfInit ==
    /\ npmrc \in [Locations -> [Keys -> InitValues]]
    /\ originalConf = npmrc
    /\ originalValuesForLocations = <<>>
    /\ captures = [p \in Pairs |-> 0]
    /\ preSet = [p \in Pairs |-> NotYet]
    /\ setCount = [p \in Pairs |-> 0]
    /\ written = {}
    /\ lastCall = [op |-> "new", location |-> "", ok |-> TRUE]
    /\ execThrew = FALSE
    /\ nCalls = 0
    /\ SessIdle
    /\ BundleIdle
    /\ ProcessIdle

ClientSet(name, value, location, fuel) ==
    /\ nCalls < MaxCalls
    /\ LET c == set(Mgr(fuel), name, value, location)
           p == <<name, location>>
       IN /\ StoreMgr(c)
          /\ preSet' = IF preSet[p] = NotYet
                       THEN [preSet EXCEPT ![p] = npmrc[location][name]]
                       ELSE preSet
          /\ setCount' = [setCount EXCEPT ![p] = @ + 1]
          /\ written' = IF c.threw THEN written ELSE written \cup {p}
          /\ lastCall' = [op |-> "set", location |-> location, ok |-> ~c.threw]
    /\ nCalls' = nCalls + 1
    /\ UNCHANGED <<processVars, sessVars, bundleVars>>

ClientRestore(location, fuel) ==
    /\ nCalls < MaxCalls
    /\ LET c == restore(Mgr(fuel), location)
       IN /\ StoreMgr(c)
          /\ lastCall' = [op |-> "restore", location |-> location, ok |-> ~c.threw]
    /\ nCalls' = nCalls + 1
    /\ UNCHANGED <<processVars, preSet, setCount, written>>
    /\ UNCHANGED <<processVars, sessVars, bundleVars>>

ClientRestoreAll(fuel) ==
    /\ nCalls < MaxCalls
    /\ LET c == restoreAll(Mgr(fuel))
       IN /\ StoreMgr(c)
          /\ lastCall' = [op |-> "restoreAll", location |-> "", ok |-> ~c.threw]
    /\ nCalls' = nCalls + 1
    /\ UNCHANGED <<processVars, preSet, setCount, written>>
    /\ UNCHANGED <<processVars, sessVars, bundleVars>>

ExecFuel == {NoFail} \cup 0..MaxExecOk

ConfNext ==
    \/ \E name \in Keys, value \in SetValues, location \in Locations, fuel \in {NoFail, 0} :
          ClientSet(name, value, location, fuel)
    \/ \E location \in Locations, fuel \in ExecFuel : ClientRestore(location, fuel)
    \/ \E fuel \in ExecFuel : ClientRestoreAll(fuel)

SpecConf == ConfInit /\ [][ConfNext]_vars

----------------------------------------------------------------------------
(* The registry session: runExecutor of start-repo/executor.ts.             *)

Ports == {4873, 4874}
Scopes == {"acme"}

getLocalRegistrySettings(port) ==
    LET hostAndPort == "localhost:" \o ToString(port) \o "/"
    IN [registry |-> "http://" \o hostAndPort,
        authTokenKey |-> "//" \o hostAndPort \o ":_authToken",
        authTokenValue |-> "secretVerdaccioToken"]

npmRegistry == [name |-> "npm", key |-> "registry"]

createScopedRegistryConfigItem(s) == [name |-> s, key |-> "@" \o s \o ":registry"]

AllKeys ==
    {npmRegistry.key}
        \cup {createScopedRegistryConfigItem(s).key : s \in Scopes}
        \cup {getLocalRegistrySettings(p).authTokenKey : p \in Ports}

\* get(name) with no location: the effective value.  config-chain takes the
\* first source that defines the key, project before user, then npm's default.
getEffective(orig, name) ==
    IF orig["project"][name] # Undefined THEN orig["project"][name]
    ELSE IF orig["user"][name] # Undefined THEN orig["user"][name]
    ELSE IF name = npmRegistry.key THEN upstreamRegistry
    ELSE Undefined

getForLocation(orig, name, location) ==
    [value |-> getEffective(orig, name), locationValue |-> get(orig, name, location)]

getNpmRegistriesConfig(npmScopes, orig, location) ==
    [i \in 1..(Len(npmScopes) + 1) |->
        LET item == IF i <= Len(npmScopes)
                    THEN createScopedRegistryConfigItem(npmScopes[i])
                    ELSE npmRegistry
            v == getForLocation(orig, item.key, location)
        IN [name |-> item.name, key |-> item.key,
            value |-> v.value, locationValue |-> v.locationValue]]

RECURSIVE verdaccioUplinks(_, _)
verdaccioUplinks(acc, items) ==
    IF items = <<>> THEN acc
    ELSE IF Falsy(Head(items).value) THEN verdaccioUplinks(acc, Tail(items))
    ELSE verdaccioUplinks(MapSet(acc, Head(items).name, Head(items).value), Tail(items))

RECURSIVE verdaccioPackages_NoValueCheck(_, _)
verdaccioPackages_NoValueCheck(acc, items) ==
    IF items = <<>> THEN acc
    ELSE LET it == Head(items)
             packageKey == IF it.key = "registry" THEN "**" ELSE "@" \o it.name \o "/*"
         IN verdaccioPackages_NoValueCheck(MapSet(acc, packageKey, it.name), Tail(items))

RECURSIVE verdaccioPackages(_, _)
verdaccioPackages(acc, items) ==
    IF items = <<>> THEN acc
    ELSE LET it == Head(items)
             packageKey == IF it.key = "registry" THEN "**" ELSE "@" \o it.name \o "/*"
         IN IF Falsy(it.value) THEN verdaccioPackages(acc, Tail(items))
            ELSE verdaccioPackages(MapSet(acc, packageKey, it.name), Tail(items))

createVerdaccioConfig(items) ==
    [uplinks |-> verdaccioUplinks(<<>>, items),
     packages |-> verdaccioPackages(<<>>, items)]

configureNpmCalls_TokenIsRegistry(items, registryConfig) ==
    [i \in 1..(Len(items) + 1) |->
        IF i <= Len(items)
        THEN [key |-> items[i].key, value |-> registryConfig.registry]
        ELSE [key |-> registryConfig.authTokenKey, value |-> registryConfig.registry]]

\* the conf.set calls of configureNpm, in order
configureNpmCalls(items, registryConfig) ==
    [i \in 1..(Len(items) + 1) |->
        IF i <= Len(items)
        THEN [key |-> items[i].key, value |-> registryConfig.registry]
        ELSE [key |-> registryConfig.authTokenKey, value |-> registryConfig.authTokenValue]]

\* childProcess.on('error' | 'disconnect' | 'exit'): what the event does to
\* the promise of startVerdaccio
NullCode == -1
ChildEvents ==
    {[type |-> "error", code |-> NullCode], [type |-> "disconnect", code |-> NullCode]}
        \cup {[type |-> "exit", code |-> c] : c \in {0, 1, NullCode}}

onExit_AlwaysResolve(code) == "resolved"

onExit(code) == IF code = 0 THEN "resolved" ELSE "rejected"

settle(promise, ev) ==
    IF promise # "pending" THEN promise
    ELSE IF ev.type = "exit" THEN onExit(ev.code)
    ELSE "rejected"

\* process events that have processExitListener registered, and what each
\* passes to it: the exit code, or the signal's name
Signals == {"SIGTERM", "SIGINT", "SIGHUP"}
ExitCodes == {0, 1, 130}
ExitArg(code) == [event |-> "exit", code |-> code]
SignalArg(sig) == [event |-> sig, code |-> NullCode]

\* childProcess.kill(signal) throws ERR_UNKNOWN_SIGNAL unless it is given a
\* signal name, 0, or the number of a signal
killAccepts(arg) == arg.event \in Signals \/ arg.code = 0 \/ arg.code \in 1..31

\* processExitListener(signal): the firing's record, and the manager after it
listenerKillThrows(arg) == childProcess /\ ~killAccepts(arg)

listenerMgr(arg, fuel) ==
    IF listenerKillThrows(arg) THEN Mgr(fuel) ELSE restoreAll(Mgr(fuel))

listenerPropagates_NoCatch(arg, c) == listenerKillThrows(arg) \/ c.threw

\* whether an exception leaves the listener: one thrown by kill does, one
\* thrown by restoreAll is caught (try/catch, lines 371-375)
listenerPropagates(arg, c) == listenerKillThrows(arg)

processExitListener(arg, fuel) ==
    LET c == listenerMgr(arg, fuel)
    IN /\ StoreMgr(c)
       /\ childSignals' = IF childProcess /\ killAccepts(arg)
                          THEN Append(childSignals, arg)
                          ELSE childSignals
       /\ listenerRuns' = Append(listenerRuns,
                                 [arg |-> arg,
                                  threw |-> listenerPropagates(arg, c),
                                  restoreAll |-> ~listenerKillThrows(arg),
                                  caught |-> c.threw])

Pending == [state |-> "pending", success |-> FALSE, port |-> 0]
Threw == [state |-> "threw", success |-> FALSE, port |-> 0]
Returned(success, port) == [state |-> "returned", success |-> success, port |-> port]

\* runExecutor is invoked in a fresh process
SessInit ==
    /\ options \in [location : Locations, port : Ports]
    /\ scopes \in {<<>>, <<"acme">>}
    /\ \E r \in InitValues, sr \in (IF scopes = <<>> THEN {Undefined} ELSE InitValues),
          o \in {Undefined, upstreamRegistry} :
          npmrc = [l \in Locations |-> [k \in AllKeys |->
                     IF l = options.location
                     THEN (IF k = npmRegistry.key THEN r
                           ELSE IF k \in {createScopedRegistryConfigItem(s).key : s \in Scopes} THEN sr
                           ELSE Undefined)
                     ELSE (IF k = npmRegistry.key THEN o ELSE Undefined)]]
    /\ originalConf = npmrc
    /\ originalValuesForLocations = <<>>
    /\ captures = [p \in AllKeys \X Locations |-> 0]
    /\ preSet = [p \in Pairs |-> NotYet]
    /\ setCount = [p \in Pairs |-> 0]
    /\ written = {}
    /\ lastCall = [op |-> "new", location |-> "", ok |-> TRUE]
    /\ execThrew = FALSE
    /\ nCalls = 0
    /\ pc = "start"
    /\ procState = "running"
    /\ npmRegistryConfig = <<>>
    /\ configFile = Undefined
    /\ cfgIdx = 1
    /\ listeners = {}
    /\ childProcess = FALSE
    /\ childEmitted = <<>>
    /\ launch = "none"
    /\ result = Pending
    /\ preSession = npmrc
    /\ nSignals = 0
    /\ listenerRuns = <<>>
    /\ childSignals = <<>>
    /\ BundleIdle
    /\ ProcessIdle

confHistory == <<preSet, setCount, written, lastCall, nCalls>>

\* executor.ts:328-334: require.resolve('verdaccio')
CheckVerdaccio(installed) ==
    /\ pc = "start" /\ procState = "running"
    /\ IF installed
       THEN pc' = "prepare" /\ UNCHANGED result
       ELSE pc' = "done" /\ result' = Threw
    /\ UNCHANGED <<processVars, bundleVars, confVars, procState, options, scopes, npmRegistryConfig, configFile,
                   cfgIdx, listeners, childProcess, childEmitted, launch, preSession,
                   nSignals, listenerRuns, childSignals>>

\* executor.ts:344-363: new NpmConfManager(), getNpmRegistriesConfig,
\* createVerdaccioConfig, writeYaml (which throws when the file cannot be written)
Prepare(yamlWritten) ==
    /\ pc = "prepare" /\ procState = "running"
    /\ originalConf' = npmrc
    /\ LET items == getNpmRegistriesConfig(scopes, npmrc, options.location)
       IN /\ npmRegistryConfig' = items
          /\ IF yamlWritten
             THEN /\ configFile' = createVerdaccioConfig(items)
                  /\ pc' = "configure"
                  /\ UNCHANGED result
             ELSE /\ pc' = "done"
                  /\ result' = Threw
                  /\ UNCHANGED configFile
    /\ UNCHANGED <<processVars, bundleVars, npmrc, originalValuesForLocations, captures, execThrew, confHistory,
                   procState, options, scopes, cfgIdx, listeners, childProcess,
                   childEmitted, launch, preSession, nSignals, listenerRuns, childSignals>>

\* executor.ts:365, 298-322: one conf.set call of configureNpm; when its npm
\* command fails the exception leaves runExecutor
ConfigureNpmStep(fuel) ==
    /\ pc = "configure" /\ procState = "running"
    /\ LET calls == configureNpmCalls(npmRegistryConfig, getLocalRegistrySettings(options.port))
           c == set(Mgr(fuel), calls[cfgIdx].key, calls[cfgIdx].value, options.location)
       IN /\ StoreMgr(c)
          /\ IF c.threw
             THEN pc' = "done" /\ result' = Threw /\ UNCHANGED cfgIdx
             ELSE /\ cfgIdx' = cfgIdx + 1
                  /\ pc' = IF cfgIdx = Len(calls) THEN "register" ELSE "configure"
                  /\ UNCHANGED result
    /\ UNCHANGED <<processVars, bundleVars, confHistory, procState, options, scopes, npmRegistryConfig, configFile,
                   listeners, childProcess, childEmitted, launch, preSession, nSignals,
                   listenerRuns, childSignals>>

processOn_NoSighup(registered) == registered \cup {"exit", "SIGTERM", "SIGINT"}

\* executor.ts:378-381: the four process.on calls
processOn(registered) == registered \cup {"exit"} \cup Signals

\* executor.ts:367-381: process.on('exit' | 'SIGTERM' | 'SIGINT' | 'SIGHUP', ...)
RegisterListeners ==
    /\ pc = "register" /\ procState = "running"
    /\ listeners' = processOn(listeners)
    /\ pc' = "fork"
    /\ UNCHANGED <<processVars, bundleVars, confVars, procState, options, scopes, npmRegistryConfig, configFile,
                   cfgIdx, childProcess, childEmitted, launch, result, preSession,
                   nSignals, listenerRuns, childSignals>>

\* executor.ts:401-432: startVerdaccio; a fork that throws rejects the promise
\* and leaves childProcess as it was
Fork(forked) ==
    /\ pc = "fork" /\ procState = "running"
    /\ IF forked
       THEN childProcess' = TRUE /\ launch' = "pending"
       ELSE launch' = "rejected" /\ UNCHANGED childProcess
    /\ pc' = "waiting"
    /\ UNCHANGED <<processVars, bundleVars, confVars, procState, options, scopes, npmRegistryConfig, configFile,
                   cfgIdx, listeners, childEmitted, result, preSession, nSignals,
                   listenerRuns, childSignals>>

Emitted(type) == \E i \in 1..Len(childEmitted) : childEmitted[i].type = type

\* executor.ts:418-430: the child emits error, disconnect or exit
ChildEmit(ev) ==
    /\ pc \in {"waiting", "done"} /\ procState = "running"
    /\ childProcess
    /\ ~Emitted(ev.type)
    /\ ev.type = "error" => ~Emitted("exit")
    /\ childEmitted' = Append(childEmitted, ev)
    /\ launch' = settle(launch, ev)
    /\ UNCHANGED <<processVars, bundleVars, confVars, pc, procState, options, scopes, npmRegistryConfig, configFile,
                   cfgIdx, listeners, childProcess, result, preSession, nSignals,
                   listenerRuns, childSignals>>

\* executor.ts:383-395: the await returns or throws, and runExecutor returns
Return ==
    /\ pc = "waiting" /\ procState = "running"
    /\ launch \in {"resolved", "rejected"}
    /\ result' = Returned(launch = "resolved", options.port)
    /\ pc' = "done"
    /\ UNCHANGED <<processVars, bundleVars, confVars, procState, options, scopes, npmRegistryConfig, configFile,
                   cfgIdx, listeners, childProcess, childEmitted, launch, preSession,
                   nSignals, listenerRuns, childSignals>>

\* SIGTERM, SIGINT or SIGHUP reaches the process.  With no listener for it the
\* process dies at once; with one, the listener runs when the running
\* synchronous code has finished, and the process lives on.
Signal(sig, fuel) ==
    /\ pc # "idle" /\ procState = "running"
    /\ nSignals < MaxSignals
    /\ nSignals' = nSignals + 1
    /\ IF sig \in listeners
       THEN /\ pc \in {"waiting", "done"}
            /\ processExitListener(SignalArg(sig), fuel)
            /\ UNCHANGED procState
       ELSE /\ fuel = NoFail
            /\ procState' = "killed"
            /\ UNCHANGED <<npmrc, originalConf, originalValuesForLocations, captures,
                           execThrew, listenerRuns, childSignals>>
    /\ UNCHANGED <<processVars, bundleVars, confHistory, pc, options, scopes, npmRegistryConfig, configFile, cfgIdx,
                   listeners, childProcess, childEmitted, launch, result, preSession>>

\* the process exits (the event loop is empty, or process.exit(code)): the
\* 'exit' event fires its listeners
ProcessExit(code, fuel) ==
    /\ pc \in {"waiting", "done"} /\ procState = "running"
    /\ procState' = "exited"
    /\ IF "exit" \in listeners
       THEN processExitListener(ExitArg(code), fuel)
       ELSE /\ fuel = NoFail
            /\ UNCHANGED <<npmrc, originalConf, originalValuesForLocations, captures,
                           execThrew, listenerRuns, childSignals>>
    /\ UNCHANGED <<processVars, bundleVars, confHistory, pc, options, scopes, npmRegistryConfig, configFile, cfgIdx,
                   listeners, childProcess, childEmitted, launch, result, preSession,
                   nSignals>>

SessNext ==
    \/ \E installed \in BOOLEAN : CheckVerdaccio(installed)
    \/ \E yamlWritten \in BOOLEAN : Prepare(yamlWritten)
    \/ \E fuel \in {NoFail, 0} : ConfigureNpmStep(fuel)
    \/ RegisterListeners
    \/ \E forked \in BOOLEAN : Fork(forked)
    \/ \E ev \in ChildEvents : ChildEmit(ev)
    \/ Return
    \/ \E sig \in Signals, fuel \in {NoFail, 0} : Signal(sig, fuel)
    \/ \E code \in ExitCodes, fuel \in {NoFail, 0} : ProcessExit(code, fuel)

SpecSession == SessInit /\ [][SessNext]_vars

----------------------------------------------------------------------------
(* createVerdaccioConfig on its own: any list of registry config items,    *)
(* one per workspace scope and then the unscoped default.                   *)

ConfigScopes == {"acme", "npm"}
ScopeLists ==
    {sq \in UNION {[1..n -> ConfigScopes] : n \in 0..2} :
        \A i, j \in DOMAIN sq : i # j => sq[i] # sq[j]}
ItemValues == {Undefined, "", upstreamRegistry, "https://npm.acme.test/"}

\* [...mapNpmScopesToConfItems(npmScopes), npmRegistry] with the values read
ConfigItems(npmScopes, values) ==
    [i \in 1..(Len(npmScopes) + 1) |->
        LET item == IF i <= Len(npmScopes)
                    THEN createScopedRegistryConfigItem(npmScopes[i])
                    ELSE npmRegistry
        IN [name |-> item.name, key |-> item.key,
            value |-> values[i], locationValue |-> Undefined]]

VerdaccioInit ==
    /\ ConfIdle
    /\ scopes \in ScopeLists
    /\ \E values \in [1..(Len(scopes) + 1) -> ItemValues] :
          npmRegistryConfig = ConfigItems(scopes, values)
    /\ configFile = Undefined
    /\ pc = "config"
    /\ procState = "running"
    /\ options = [location |-> "user", port |-> 4873]
    /\ cfgIdx = 1
    /\ listeners = {}
    /\ childProcess = FALSE
    /\ childEmitted = <<>>
    /\ launch = "none"
    /\ result = [state |-> "pending"]
    /\ preSession = npmrc
    /\ nSignals = 0
    /\ listenerRuns = <<>>
    /\ childSignals = <<>>
    /\ BundleIdle
    /\ ProcessIdle

\* executor.ts:350: createVerdaccioConfig(npmRegistryConfig)
BuildVerdaccioConfig ==
    /\ pc = "config"
    /\ configFile' = createVerdaccioConfig(npmRegistryConfig)
    /\ pc' = "configured"
    /\ UNCHANGED <<processVars, confVars, bundleVars, procState, options, scopes, npmRegistryConfig, cfgIdx,
                   listeners, childProcess, childEmitted, launch, result, preSession,
                   nSignals, listenerRuns, childSignals>>

VerdaccioNext == BuildVerdaccioConfig

SpecVerdaccio == VerdaccioInit /\ [][VerdaccioNext]_vars

----------------------------------------------------------------------------
(* runExecutor of start-repo invoked more than once in one process.  Its    *)
(* code up to `await startVerdaccio(options)` runs without yielding, so no  *)
(* event is handled in between: one invocation is one step.  `childProcess` *)
(* is one variable of the module (line 17), `conf` and the listener are     *)
(* each invocation's own.                                                   *)

\* invocations of runExecutor in one process
MaxInvocations == 2

\* new NpmConfManager(): originalConf is the configuration as it is now
newManager(rc, fuel) ==
    [rc |-> rc, orig |-> rc, ovl |-> <<>>, cap |-> [p \in AllKeys \X Locations |-> 0],
     fuel |-> fuel, threw |-> FALSE]

\* configureNpm: its conf.set calls in order, up to the first that throws
RECURSIVE configureNpm(_, _, _)
configureNpm(c, calls, location) ==
    IF calls = <<>> \/ c.threw
    THEN c
    ELSE configureNpm(set(c, Head(calls).key, Head(calls).value, location),
                      Tail(calls), location)

forkedHandle_KeepFirst(h, n, forked) == IF forked /\ h = 0 THEN n ELSE h

\* startVerdaccio: `childProcess = fork(...)` overwrites the module's handle
\* with the nth invocation's child; a fork that throws leaves it as it was
forkedHandle(h, n, forked) == IF forked THEN n ELSE h

\* the listeners of one event, in the order they were registered: each is
\* processExitListener of one invocation, with that invocation's manager
RECURSIVE fireListeners(_, _, _)
fireListeners(st, i, arg) ==
    IF i > Len(st.invs) THEN st
    ELSE IF ~st.invs[i].registered THEN fireListeners(st, i + 1, arg)
    ELSE LET inv == st.invs[i]
             m == [rc |-> st.rc, orig |-> inv.orig, ovl |-> inv.ovl, cap |-> inv.cap,
                   fuel |-> st.fuel, threw |-> FALSE]
             c == IF listenerKillThrows(arg) THEN m ELSE restoreAll(m)
         IN fireListeners(
                [rc |-> c.rc,
                 invs |-> [st.invs EXCEPT ![i].ovl = c.ovl, ![i].cap = c.cap],
                 killed |-> IF childProcess /\ killAccepts(arg)
                            THEN Append(st.killed, [child |-> handle, arg |-> arg])
                            ELSE st.killed,
                 runs |-> Append(st.runs, [arg |-> arg,
                                           threw |-> listenerPropagates(arg, c),
                                           restoreAll |-> ~listenerKillThrows(arg),
                                           caught |-> c.threw]),
                 fuel |-> c.fuel],
                i + 1, arg)

emit(arg, fuel) ==
    LET st == fireListeners([rc |-> npmrc, invs |-> invocations, killed |-> killed,
                             runs |-> listenerRuns, fuel |-> fuel], 1, arg)
    IN /\ npmrc' = st.rc
       /\ invocations' = st.invs
       /\ killed' = st.killed
       /\ listenerRuns' = st.runs

ReentryInit ==
    /\ npmrc = [l \in Locations |-> [k \in AllKeys |->
                  IF k = npmRegistry.key /\ l = "user" THEN upstreamRegistry ELSE Undefined]]
    /\ originalConf = npmrc
    /\ originalValuesForLocations = <<>>
    /\ captures = [p \in AllKeys \X Locations |-> 0]
    /\ preSet = [p \in Pairs |-> NotYet]
    /\ setCount = [p \in Pairs |-> 0]
    /\ written = {}
    /\ lastCall = [op |-> "new", location |-> "", ok |-> TRUE]
    /\ execThrew = FALSE
    /\ nCalls = 0
    /\ pc = "idle"
    /\ procState = "running"
    /\ options \in [location : Locations, port : Ports]
    /\ scopes \in {<<>>, <<"acme">>}
    /\ npmRegistryConfig = <<>>
    /\ configFile = Undefined
    /\ cfgIdx = 1
    /\ listeners = {}
    /\ childProcess = FALSE
    /\ childEmitted = <<>>
    /\ launch = "none"
    /\ result = [state |-> "pending"]
    /\ preSession = npmrc
    /\ nSignals = 0
    /\ listenerRuns = <<>>
    /\ childSignals = <<>>
    /\ BundleIdle
    /\ ProcessIdle

\* executor.ts:324-382, 401-416: runExecutor(options, context) from its first
\* line to the fork.  It throws when verdaccio is not installed, when the
\* yaml file cannot be written and when a conf.set of configureNpm fails;
\* otherwise it registers its listener and forks (or fork throws).
RunExecutor(installed, yamlWritten, forked, fuel) ==
    /\ procState = "running"
    /\ Len(invocations) < MaxInvocations
    /\ LET n == Len(invocations) + 1
           c0 == newManager(npmrc, fuel)
           items == getNpmRegistriesConfig(scopes, c0.orig, options.location)
           calls == configureNpmCalls(items, getLocalRegistrySettings(options.port))
           c == IF installed /\ yamlWritten THEN configureNpm(c0, calls, options.location) ELSE c0
           registered == installed /\ yamlWritten /\ ~c.threw
           h == forkedHandle(handle, n, registered /\ forked)
       IN /\ npmrc' = c.rc
          /\ invocations' = Append(invocations,
                                   [orig |-> c.orig, ovl |-> c.ovl,
                                    cap |-> c.cap, registered |-> registered,
                                    child |-> IF registered /\ forked THEN n ELSE 0,
                                    firedBefore |-> Len(listenerRuns)])
          /\ handle' = h
          /\ childProcess' = (h # 0)
          /\ listeners' = IF registered THEN processOn(listeners) ELSE listeners
    /\ UNCHANGED <<bundleVars, originalConf, originalValuesForLocations, captures, execThrew,
                   confHistory, pc, procState, options, scopes, npmRegistryConfig, configFile,
                   cfgIdx, childEmitted, launch, result, preSession, nSignals, listenerRuns,
                   childSignals, killed>>

\* SIGTERM, SIGINT or SIGHUP reaches the process: with no listener the
\* process dies, with listeners each of them runs and the process lives on
SignalProcess(sig, fuel) ==
    /\ procState = "running"
    /\ nSignals < MaxSignals
    /\ nSignals' = nSignals + 1
    /\ IF sig \in listeners
       THEN emit(SignalArg(sig), fuel) /\ UNCHANGED procState
       ELSE /\ fuel = NoFail
            /\ procState' = "killed"
            /\ UNCHANGED <<npmrc, invocations, killed, listenerRuns>>
    /\ UNCHANGED <<bundleVars, originalConf, originalValuesForLocations, captures, execThrew,
                   confHistory, pc, options, scopes, npmRegistryConfig, configFile, cfgIdx,
                   listeners, childProcess, childEmitted, launch, result, preSession,
                   childSignals, handle>>

\* the process exits: the 'exit' event runs every registered listener
ExitProcess(code, fuel) ==
    /\ procState = "running"
    /\ procState' = "exited"
    /\ emit(ExitArg(code), fuel)
    /\ UNCHANGED <<bundleVars, originalConf, originalValuesForLocations, captures, execThrew,
                   confHistory, pc, options, scopes, npmRegistryConfig, configFile, cfgIdx,
                   listeners, childProcess, childEmitted, launch, result, preSession,
                   nSignals, childSignals, handle>>

ReentryNext ==
    \/ \E installed, yamlWritten, forked \in BOOLEAN, fuel \in {NoFail, 0} :
          RunExecutor(installed, yamlWritten, forked, fuel)
    \/ \E sig \in Signals, fuel \in {NoFail, 0} : SignalProcess(sig, fuel)
    \/ \E code \in ExitCodes, fuel \in {NoFail, 0} : ExitProcess(code, fuel)

SpecReentry == ReentryInit /\ [][ReentryNext]_vars

----------------------------------------------------------------------------
(* copyFolderSync on its own: any source tree, any destination.             *)

FileData == {[text |-> "v1"], [text |-> "v2"]}
CopyNames == {"a", "b"}

\* directories over CopyNames whose entries are files or, below a level,
\* directories of the level before
DirsOver(children) ==
    {Dir(e) : e \in UNION {[ns -> children] : ns \in SUBSET CopyNames}}
FlatDirs == DirsOver({File(d) : d \in FileData})
SourceTrees == DirsOver({File(d) : d \in FileData} \cup FlatDirs)
DestinationTrees == {NoNode} \cup {File(d) : d \in FileData} \cup SourceTrees

CopyInit ==
    /\ \E from \in SourceTrees, to \in DestinationTrees :
          fs = Dir([n \in {"from"} \cup (IF to = NoNode THEN {} ELSE {"to"}) |->
                      IF n = "from" THEN from ELSE to])
    /\ fsBefore = fs
    /\ copied = {}
    /\ copyThrew = "no"
    /\ pcB = "copy"
    /\ RunIdle
    /\ ConfIdle
    /\ SessIdle
    /\ ProcessIdle

\* copyFolderSync(from, to)
CopyFolder(fuel) ==
    /\ pcB = "copy"
    /\ LET st == copyFolderSync(Fs(fuel), <<"from">>, <<"to">>)
       IN /\ fs' = st.tree
          /\ copied' = st.copied
          /\ copyThrew' = IF st.threw THEN "copy" ELSE "no"
    /\ pcB' = "copied"
    /\ UNCHANGED <<processVars, fsBefore, runVars, confVars, sessVars>>

CopyNext == \E fuel \in CopyFuel : CopyFolder(fuel)

SpecCopy == CopyInit /\ [][CopyNext]_vars

----------------------------------------------------------------------------
(* The bundling run: runExecutor of bundle-deps/src/executors/run/          *)
(* executor.ts.  A manifest is a function from its keys to their values; a  *)
(* dependency map is a function from package names to versions.             *)

Names == {"@acme/ui", "Bad_Lib", "lodash"}
HelperTargets == {"npm:tslib"}
AllNames == Names \cup {"tslib"}

\* validate(packageName).validForNewPackages: capital letters are refused
validForNewPackages(packageName) == packageName \notin {"Bad_Lib"}

\* the segments join(dir, packageName) adds to dir
PackagePath(packageName) ==
    IF packageName = "@acme/ui" THEN <<"@acme", "ui">> ELSE <<packageName>>

\* getHelperDependenciesFromProjectGraph(root, projectName, graph): the helper
\* targets of a project.  For the bundled project it is the input helperDeps;
\* the library @acme/ui is built with importHelpers and needs tslib.
ProjectName == "app"
getHelperDependenciesFromProjectGraph(projectName) ==
    IF projectName = ProjectName THEN helperDeps
    ELSE IF projectName = "@acme/ui" THEN <<"npm:tslib">>
    ELSE <<>>

\* helperDep.target.split('npm:')[1] || ''
helperPackageName(target) == IF target = "npm:tslib" THEN "tslib" ELSE ""

distPath == <<"dist">>
distPackageJsonPath == distPath \o <<"package.json">>
publishPath == <<"publish">>
publishPackageJsonPath == publishPath \o <<"package.json">>
publishNodeModulesPath == publishPath \o <<"node_modules">>
libDistPath(packageName) == <<"libs">> \o PackagePath(packageName)

DepMaps == {"dependencies", "devDependencies", "peerDependencies", "optionalDependencies"}
EmptyMap == [n \in {} |-> Undefined]
PutKey(map, key, value) ==
    [k \in DOMAIN map \cup {key} |-> IF k = key THEN value ELSE map[k]]
Range(seq) == {seq[i] : i \in DOMAIN seq}

\* getAllDependencies(root package.json)
getRootPackageJsonDeps ==
    [n \in {"lodash", "tslib"} |-> IF n = "lodash" THEN "4.17.21" ELSE "2.6.2"]

\* rootNpmDeps[d]
rootVersion(d) ==
    IF d \in DOMAIN getRootPackageJsonDeps THEN getRootPackageJsonDeps[d] ELSE Undefined

isLibNode(dependency) == dependency.type = "lib"
isNpmPackage(dependency) == dependency.type = "npm"

\* [...new Set(names)]: the first occurrence of each name, in order
RECURSIVE Dedupe(_)
Dedupe(names) ==
    IF names = <<>> THEN <<>>
    ELSE LET front == Dedupe(SubSeq(names, 1, Len(names) - 1))
             last == names[Len(names)]
         IN IF last \in Range(front) THEN front ELSE Append(front, last)

RECURSIVE Flatten(_)
Flatten(lists) == IF lists = <<>> THEN <<>> ELSE Head(lists) \o Flatten(Tail(lists))

toLibDep(dep) ==
    [packageName |-> dep.name,
     validPackageName |-> validForNewPackages(dep.name),
     distPath |-> libDistPath(dep.name),
     npmDeps |-> <<>>]

keepLibDep_Always(dep) == TRUE

\* .filter((dep) => dep.validPackageName)
keepLibDep(dep) == dep.validPackageName

getProjectDependencies(deps, helperTargets) ==
    LET libNodes == SelectSeq(deps, isLibNode)
        libDeps == SelectSeq([i \in DOMAIN libNodes |-> toLibDep(libNodes[i])], keepLibDep)
        npmNodes == SelectSeq(deps, isNpmPackage)
        npmDeps == [i \in DOMAIN npmNodes |-> npmNodes[i].name]
        projectHelperDeps == [i \in DOMAIN helperTargets |-> helperPackageName(helperTargets[i])]
        helperNmpDeps == Flatten([i \in DOMAIN libDeps |-> libDeps[i].npmDeps])
        combinedNpmDeps == Dedupe(npmDeps \o projectHelperDeps \o helperNmpDeps)
    IN [libDeps |-> libDeps,
        npmDeps |-> [i \in DOMAIN combinedNpmDeps |->
                        [packageName |-> combinedNpmDeps[i],
                         version |-> rootVersion(combinedNpmDeps[i])]]]

\* getPackageJson(path): the parsed content of the file
getPackageJson(tree, path) == NodeAt(tree, path).data

\* the property of a parsed JSON object, undefined when it has none
Prop(json, key) == IF key \in DOMAIN json THEN json[key] ELSE Undefined

\* JSON.stringify: a key whose value is undefined is left out
stringify(json) ==
    [f \in DOMAIN json |->
        IF f \in DepMaps
        THEN [n \in {k \in DOMAIN json[f] : json[f][k] # Undefined} |-> json[f][n]]
        ELSE json[f]]

writeJsonFile(tree, path, json) == PutAt(tree, path, File(stringify(json)))

\* { dependencies: {}, ..., bundleDependencies: [], ...publishPackageJson }
withDefaults(publishPackageJson) ==
    [f \in DOMAIN publishPackageJson \cup DepMaps \cup {"bundleDependencies"} |->
        IF f \in DOMAIN publishPackageJson THEN publishPackageJson[f]
        ELSE IF f = "bundleDependencies" THEN <<>>
        ELSE EmptyMap]

hasDependency_NoDevDependencies(outputJson, dep) ==
    dep \in DOMAIN outputJson.dependencies \cup DOMAIN outputJson.peerDependencies
              \cup DOMAIN outputJson.optionalDependencies

hasDependency_DependenciesOnly(outputJson, dep) ==
    dep \in DOMAIN outputJson.dependencies

hasDependency(outputJson, dep) ==
    LET deps == DOMAIN outputJson.dependencies
        peerDeps == DOMAIN outputJson.peerDependencies
        optionalDeps == DOMAIN outputJson.optionalDependencies
        devDeps == DOMAIN outputJson.devDependencies
    IN dep \in deps \cup peerDeps \cup optionalDeps \cup devDeps

addDependency_Unshift(json, npmDep, destination) ==
    LET pushed == IF destination = "bundledDependencies"
                  THEN [json EXCEPT !.bundleDependencies = <<npmDep.packageName>> \o @]
                  ELSE json
    IN [pushed EXCEPT !.dependencies = PutKey(@, npmDep.packageName, npmDep.version)]

addDependency_BundleOnly(json, npmDep, destination) ==
    IF destination = "bundledDependencies"
    THEN [json EXCEPT !.bundleDependencies = Append(@, npmDep.packageName)]
    ELSE [json EXCEPT !.dependencies = PutKey(@, npmDep.packageName, npmDep.version)]

addDependency(json, npmDep, destination) ==
    LET pushed == IF destination = "bundledDependencies"
                  THEN [json EXCEPT !.bundleDependencies = Append(@, npmDep.packageName)]
                  ELSE json
    IN [pushed EXCEPT !.dependencies = PutKey(@, npmDep.packageName, npmDep.version)]

Unsettled == [state |-> "pending"]
Rejected == [state |-> "rejected"]
Resolved(success) == [state |-> "resolved", success |-> success]

runExecutorResult_Rethrow(threw) == IF threw THEN Rejected ELSE Resolved(TRUE)

\* lines 227-237: an exception of updateDependencies2 is caught and the run
\* returns {success: false}; otherwise it returns {success: true}
runExecutorResult(threw) == Resolved(~threw)

----------------------------------------------------------------------------
(* The inputs of a bundling run: the dependency list of the project graph,  *)
(* the build output with its manifest, and the built libraries.             *)

DeclaredVersion == "1.0.0"
LibVersion == "1.2.3"

DepNodes == [name : Names, type : {"lib", "npm"}]
DepLists == UNION {[1..k -> DepNodes] : k \in 0..MaxDeps}

\* the maps of the manifest in which a package can be declared beforehand
DeclChoices ==
    {{}, {"dependencies"}, {"devDependencies"}, {"peerDependencies"},
     {"optionalDependencies"}, {"peerDependencies", "devDependencies"}}
\* the package with the refused name is in no map beforehand
Declarations == {d \in [Names -> DeclChoices] : d["Bad_Lib"] = {}}
InitialBundles == {<<>>, <<"Bad_Lib">>}

\* a manifest file: each dependency map and bundleDependencies is there only
\* when it has entries
Manifest(decl, bundle) ==
    LET maps == {f \in DepMaps : \E n \in Names : f \in decl[n]}
        keys == {"name"} \cup maps \cup (IF bundle = <<>> THEN {} ELSE {"bundleDependencies"})
    IN [f \in keys |->
          IF f = "name" THEN "app"
          ELSE IF f = "bundleDependencies" THEN bundle
          ELSE [n \in {m \in Names : f \in decl[m]} |-> DeclaredVersion]]

LibManifest(packageName, versioned) ==
    IF versioned THEN [name |-> packageName, version |-> LibVersion]
    ELSE [name |-> packageName]

BuiltFolder(manifest) ==
    Dir([n \in {"index.js", "package.json"} |->
           IF n = "index.js" THEN File([text |-> "v1"]) ELSE File(manifest)])

\* the workspace before the run: dist/ and one built folder per library
RECURSIVE PutLibs(_, _, _)
PutLibs(tree, names, versioned) ==
    IF names = {} THEN tree
    ELSE LET n == CHOOSE x \in names : TRUE
         IN PutLibs(PutAt(tree, libDistPath(n), BuiltFolder(LibManifest(n, versioned))),
                    names \ {n}, versioned)

Workspace(decl, bundle, versioned) ==
    PutLibs(PutAt(EmptyDir, distPath, BuiltFolder(Manifest(decl, bundle))), Names, versioned)

BundleInit ==
    /\ graphDeps \in DepLists
    /\ helperDeps \in {<<>>} \cup {<<t>> : t \in HelperTargets}
    /\ \E decl \in Declarations, bundle \in InitialBundles, versioned \in BOOLEAN :
          fs = Workspace(decl, bundle, versioned)
    /\ fsBefore = fs
    /\ copied = {}
    /\ copyThrew = "no"
    /\ pcB = "start"
    /\ projectInfo = Undefined
    /\ packageJson = Undefined
    /\ libIdx = 1
    /\ npmIdx = 1
    /\ appended = <<>>
    /\ manifestWrites = 0
    /\ outcomeB = Unsettled
    /\ ConfIdle
    /\ SessIdle
    /\ ProcessIdle

\* runExecutor, lines 217-223: getProjectInfoPlusPlus, outside the try
GetProjectInfoPlusPlus(fuel) ==
    /\ pcB = "start"
    /\ LET pd == getProjectDependencies(graphDeps, helperDeps)
           st == copyFolderSync(Fs(fuel), distPath, publishPath)
       IN IF ~isFile(fs, distPackageJsonPath)
          THEN /\ outcomeB' = Rejected
               /\ pcB' = "done"
               /\ UNCHANGED <<fs, copied, copyThrew, projectInfo>>
          ELSE /\ fs' = st.tree
               /\ copied' = st.copied
               /\ IF st.threw \/ ~isFile(st.tree, publishPackageJsonPath)
                  THEN /\ copyThrew' = IF st.threw THEN "dist" ELSE "no"
                       /\ outcomeB' = Rejected
                       /\ pcB' = "done"
                       /\ UNCHANGED projectInfo
                  ELSE /\ projectInfo' =
                            [libDeps |-> pd.libDeps,
                             npmDeps |-> pd.npmDeps,
                             publishPackageJson |-> getPackageJson(st.tree, publishPackageJsonPath)]
                       /\ pcB' = "info"
                       /\ UNCHANGED <<copyThrew, outcomeB>>
    /\ UNCHANGED <<processVars, fsBefore, graphDeps, helperDeps, packageJson, libIdx, npmIdx, appended,
                   manifestWrites, confVars, sessVars>>

\* updateDependencies2, lines 241-256: the manifest in memory
UpdateDependencies2Begin ==
    /\ pcB = "info"
    /\ packageJson' = withDefaults(projectInfo.publishPackageJson)
    /\ pcB' = "merge"
    /\ UNCHANGED <<processVars, fs, fsBefore, copied, copyThrew, graphDeps, helperDeps, projectInfo,
                   libIdx, npmIdx, appended, manifestWrites, outcomeB, confVars, sessVars>>

\* one turn of libDeps.forEach, lines 275-304; an exception ends
\* updateDependencies2 and is caught by runExecutor, lines 229-233
MergeLibDep(fuel) ==
    /\ pcB = "merge"
    /\ libIdx <= Len(projectInfo.libDeps)
    /\ LET dependency == projectInfo.libDeps[libIdx]
           to == publishNodeModulesPath \o PackagePath(dependency.packageName)
           st == copyFolderSync(Fs(fuel), dependency.distPath, to)
           vendored == to \o <<"package.json">>
       IN IF hasDependency(packageJson, dependency.packageName)
          THEN /\ libIdx' = libIdx + 1
               /\ UNCHANGED <<fs, copied, copyThrew, packageJson, appended, outcomeB, pcB>>
          ELSE /\ fs' = st.tree
               /\ copied' = st.copied
               /\ IF st.threw \/ ~isFile(st.tree, vendored)
                  THEN /\ copyThrew' = IF st.threw THEN "vendor" ELSE "no"
                       /\ outcomeB' = runExecutorResult(TRUE)
                       /\ pcB' = "done"
                       /\ UNCHANGED <<packageJson, appended, libIdx>>
                  ELSE /\ packageJson' =
                            addDependency(packageJson,
                                [packageName |-> dependency.packageName,
                                 version |-> Prop(getPackageJson(st.tree, vendored), "version")],
                                "bundledDependencies")
                       /\ appended' = Append(appended, dependency.packageName)
                       /\ libIdx' = libIdx + 1
                       /\ UNCHANGED <<copyThrew, outcomeB, pcB>>
    /\ UNCHANGED <<processVars, fsBefore, graphDeps, helperDeps, projectInfo, npmIdx, manifestWrites,
                   confVars, sessVars>>

\* one turn of npmDeps.forEach, lines 306-311
MergeNpmDep ==
    /\ pcB = "merge"
    /\ libIdx > Len(projectInfo.libDeps)
    /\ npmIdx <= Len(projectInfo.npmDeps)
    /\ LET dependency == projectInfo.npmDeps[npmIdx]
       IN packageJson' = IF hasDependency(packageJson, dependency.packageName)
                         THEN packageJson
                         ELSE addDependency(packageJson, dependency, "dependencies")
    /\ npmIdx' = npmIdx + 1
    /\ UNCHANGED <<processVars, fs, fsBefore, copied, copyThrew, pcB, graphDeps, helperDeps, projectInfo,
                   libIdx, appended, manifestWrites, outcomeB, confVars, sessVars>>

\* writeJsonFile, line 316, and the return of runExecutor, lines 229-237
WriteManifest(ok) ==
    /\ pcB = "merge"
    /\ libIdx > Len(projectInfo.libDeps)
    /\ npmIdx > Len(projectInfo.npmDeps)
    /\ IF ok
       THEN /\ fs' = writeJsonFile(fs, publishPackageJsonPath, packageJson)
            /\ manifestWrites' = manifestWrites + 1
            /\ outcomeB' = runExecutorResult(FALSE)
       ELSE /\ outcomeB' = runExecutorResult(TRUE)
            /\ UNCHANGED <<fs, manifestWrites>>
    /\ pcB' = "done"
    /\ UNCHANGED <<processVars, fsBefore, copied, copyThrew, graphDeps, helperDeps, projectInfo, packageJson,
                   libIdx, npmIdx, appended, confVars, sessVars>>

BundleNext ==
    \/ \E fuel \in CopyFuel : GetProjectInfoPlusPlus(fuel)
    \/ UpdateDependencies2Begin
    \/ \E fuel \in CopyFuel : MergeLibDep(fuel)
    \/ MergeNpmDep
    \/ \E ok \in BOOLEAN : WriteManifest(ok)

SpecBundle == BundleInit /\ [][BundleNext]_vars

----------------------------------------------------------------------------
(* Claims about NpmConfManager, checked under SpecConf.                     *)

\* C1 (as stated): after one or more set(key, v, location) calls and then
\* restore(location), no npm command having failed, the key holds at that
\* location the value it had before the first set call.
C1_RestoreGivesValueBeforeFirstSet ==
    (lastCall.op = "restore" /\ ~execThrew) =>
        \A k \in Keys :
            setCount[<<k, lastCall.location>>] > 0 =>
                npmrc[lastCall.location][k] = preSet[<<k, lastCall.location>>]

\* C9: every pair written through set has a snapshot entry; the entry was
\* recorded exactly once, no later than the pair's first configuration write,
\* and holds the value the pair had before any mutation.
C9_SnapshotRecordedOnceBeforeWrite ==
    \A p \in Pairs :
        /\ (p \in written \/ npmrc[p[2]][p[1]] # originalConf[p[2]][p[1]]) => Captured(p)
        /\ setCount[p] > 0 => Captured(p)
        /\ Captured(p) =>
              /\ captures[p] = 1
              /\ Snapshot(p) = preSet[p]
        /\ ~Captured(p) => captures[p] = 0

\* a pair set twice, with its value changed, and a restore call after that
C9_Witness ==
    \E p \in Pairs :
        /\ setCount[p] >= 2
        /\ p \in written
        /\ Captured(p)
        /\ lastCall.op = "restore"
        /\ lastCall.location = p[2]

----------------------------------------------------------------------------
(* Claims about the registry session, checked under SpecSession.            *)

\* C2 (as stated): once the process has ended, by normal exit or by SIGTERM,
\* SIGINT or SIGHUP, every key holds at the requested location the value it
\* had before the session (absent if it was absent).
C2_RestoredWhenProcessEnds ==
    procState \in {"exited", "killed"} =>
        \A k \in AllKeys :
            npmrc[options.location][k] = preSession[options.location][k]

\* C5: once a child has been forked, the promise of runExecutor settles only
\* after the child has emitted error, disconnect or exit; it resolves with
\* success: true exactly when the first of these events is exit with code 0,
\* with success: false otherwise, and port is options.port in both.
C5_ResultFollowsFirstChildEvent ==
    /\ (childProcess /\ result.state # "pending") =>
          /\ result.state = "returned"
          /\ childEmitted # <<>>
          /\ result.success = (childEmitted[1] = [type |-> "exit", code |-> 0])
    /\ result.state = "returned" =>
          /\ result.port = options.port
          /\ result.success => childProcess

\* a session that started, was sent a signal by processExitListener, and
\* whose child then exited with code 0: runExecutor returned success: true
C5_Witness ==
    /\ result = Returned(TRUE, options.port)
    /\ childSignals # <<>>
    /\ childSignals[1].event \in Signals
    /\ childEmitted[1] = [type |-> "exit", code |-> 0]

----------------------------------------------------------------------------
(* Claims about copyFolderSync, checked under SpecCopy.                     *)

CopySource == FilesUnder(NodeAt(fs, <<"from">>))
CopyDestination == FilesUnder(NodeAt(fs, <<"to">>))
CopyDestinationBefore == FilesUnder(NodeAt(fsBefore, <<"to">>))
CopyCompleted == pcB = "copied" /\ copyThrew = "no"

\* C8 as stated: after copyFolderSync(D, D') returns, whether D' was absent or
\* already existed, the files under D' are exactly the files under D: the
\* same relative paths with the same content.
C8_DestinationEqualsSource ==
    CopyCompleted => CopyDestination = CopySource

\* C8, amended: after copyFolderSync(D, D') returns, every file under D is
\* under D' at the same relative path with the same content, and every other
\* file under D' is one that was there before the copy, unchanged; the two
\* trees are equal when D' held no file outside the paths of D.
C8_DestinationHoldsSource ==
    CopyCompleted =>
        /\ CopySource \subseteq CopyDestination
        /\ CopyDestination \subseteq CopySource \cup CopyDestinationBefore
        /\ ({f[1] : f \in CopyDestinationBefore} \subseteq {f[1] : f \in CopySource}
              => CopyDestination = CopySource)

\* a copy into an existing directory that holds a file the source lacks and a
\* file the source has with other content, from a source with a nested file
C8_Witness ==
    /\ CopyCompleted
    /\ \E f \in CopySource : Len(f[1]) = 2
    /\ \E f \in CopyDestinationBefore : f[1] \notin {g[1] : g \in CopySource}
    /\ \E f \in CopyDestinationBefore, g \in CopySource : f[1] = g[1] /\ f[2] # g[2]

----------------------------------------------------------------------------
(* Claims about the bundling run, checked under SpecBundle.                 *)

\* the manifest updateDependencies2 started from, and the one on disk now
InputManifest == withDefaults(projectInfo.publishPackageJson)
WrittenManifest == getPackageJson(fs, publishPackageJsonPath)
Merging == pcB \in {"merge", "done"} /\ outcomeB # Rejected
Written == manifestWrites > 0

\* the dependency maps of a manifest that have the name as a key
MapsOf(json, name) == {f \in DepMaps : name \in DOMAIN json[f]}

SameEntries(json, input, name) ==
    \A f \in DepMaps :
        /\ name \in DOMAIN json[f] <=> name \in DOMAIN input[f]
        /\ name \in DOMAIN input[f] => json[f][name] = input[f][name]

\* the version in the manifest of the package vendored under node_modules
VendoredVersion(name) ==
    LET path == publishNodeModulesPath \o PackagePath(name) \o <<"package.json">>
    IN IF isFile(fs, path) THEN Prop(getPackageJson(fs, path), "version") ELSE Undefined

\* C3: a package name that is a key of dependencies, peerDependencies,
\* optionalDependencies or devDependencies before updateDependencies2 runs
\* is never pushed to bundleDependencies, never added to another map, and
\* keeps its version, in the manifest in memory and in the written one.
C3_DeclaredNeverReAdded ==
    Merging =>
        \A n \in AllNames :
            MapsOf(InputManifest, n) # {} =>
                /\ SameEntries(packageJson, InputManifest, n)
                /\ n \notin Range(appended)
                /\ Written => SameEntries(WrittenManifest, InputManifest, n)

\* a written manifest after a run whose lib-deps and npm-deps both held a
\* package declared only in devDependencies
C3_Witness ==
    /\ outcomeB = Resolved(TRUE)
    /\ \E n \in Names :
          /\ MapsOf(InputManifest, n) = {"devDependencies"}
          /\ \E i \in DOMAIN projectInfo.libDeps : projectInfo.libDeps[i].packageName = n
    /\ \E i \in DOMAIN projectInfo.npmDeps :
          /\ MapsOf(InputManifest, projectInfo.npmDeps[i].packageName) # {}
          /\ projectInfo.npmDeps[i].version # Undefined

\* C4 as stated: after a run that returns {success: true}, every entry of
\* the written bundleDependencies is a key of the written dependencies, with
\* the version of the vendored package's manifest.
C4_EveryBundledIsDependency ==
    outcomeB = Resolved(TRUE) =>
        \A e \in Range(WrittenManifest.bundleDependencies) :
            /\ e \in DOMAIN WrittenManifest.dependencies
            /\ WrittenManifest.dependencies[e] = VendoredVersion(e)

\* C4, amended: after a run that returns {success: true}, the written
\* bundleDependencies is the list the manifest started with followed by the
\* entries the run appended; every appended entry is a key of dependencies in
\* the merged manifest with the version of the vendored package's manifest,
\* and is a key of the written dependencies with that version exactly when
\* the vendored manifest has a version.  Entries the manifest started with
\* are kept as they are.
C4_EveryAppendedIsDependency ==
    outcomeB = Resolved(TRUE) =>
        /\ WrittenManifest.bundleDependencies = InputManifest.bundleDependencies \o appended
        /\ \A e \in Range(appended) :
              /\ e \in DOMAIN packageJson.dependencies
              /\ packageJson.dependencies[e] = VendoredVersion(e)
              /\ IF VendoredVersion(e) = Undefined
                 THEN e \notin DOMAIN WrittenManifest.dependencies
                 ELSE /\ e \in DOMAIN WrittenManifest.dependencies
                      /\ WrittenManifest.dependencies[e] = VendoredVersion(e)

\* a successful run that vendored a versioned library into a manifest that
\* already had a bundleDependencies entry
C4_Witness ==
    /\ outcomeB = Resolved(TRUE)
    /\ InputManifest.bundleDependencies # <<>>
    /\ \E e \in Range(appended) : VendoredVersion(e) = LibVersion

\* C6 as stated: a file-copy failure, while copying the build output or while
\* vendoring a library, makes runExecutor resolve with {success: false}, and
\* the files copied before the failure stay in place.
C6_CopyFailureResolvesFalse ==
    (copyThrew # "no" /\ pcB = "done") =>
        /\ outcomeB = Resolved(FALSE)
        /\ \A path \in copied : isFile(fs, path)

\* C7 as stated: a library dependency whose name fails validation is never in
\* the bundleDependencies of the written manifest.
C7_InvalidNameNeverBundled ==
    Written =>
        \A i \in DOMAIN graphDeps :
            (isLibNode(graphDeps[i]) /\ ~validForNewPackages(graphDeps[i].name)) =>
                graphDeps[i].name \notin Range(WrittenManifest.bundleDependencies)

\* C7, amended: a library dependency whose name fails validation is never
\* appended to bundleDependencies by the run; it is in the written
\* bundleDependencies only when the manifest the run started from had it.
C7_InvalidNameNeverAppended ==
    Merging =>
        \A i \in DOMAIN graphDeps :
            (isLibNode(graphDeps[i]) /\ ~validForNewPackages(graphDeps[i].name)) =>
                /\ graphDeps[i].name \notin Range(appended)
                /\ Written =>
                      (graphDeps[i].name \in Range(WrittenManifest.bundleDependencies)
                         <=> graphDeps[i].name \in Range(InputManifest.bundleDependencies))

\* a written manifest after a run whose dependency list had a library with a
\* refused name and a library that was vendored
C7_Witness ==
    /\ Written
    /\ \E i \in DOMAIN graphDeps :
          isLibNode(graphDeps[i]) /\ ~validForNewPackages(graphDeps[i].name)
    /\ appended # <<>>

\* C10 as stated: in the manifest updateDependencies2 writes, no package name
\* is a key of more than one of the four dependency maps.
C10_NoNameInTwoMaps ==
    Written => \A n \in AllNames : Cardinality(MapsOf(WrittenManifest, n)) <= 1

\* C10, amended: updateDependencies2 adds a name only to dependencies and
\* only when it is a key of none of the four maps, so a name is a key of more
\* than one map of the written manifest only when it was a key of those same
\* maps in the manifest the run started from.
C10_NoNameAddedToSecondMap ==
    Merging =>
        \A n \in AllNames :
            /\ \/ MapsOf(packageJson, n) = MapsOf(InputManifest, n)
               \/ MapsOf(InputManifest, n) = {} /\ MapsOf(packageJson, n) = {"dependencies"}
            /\ Written => MapsOf(WrittenManifest, n) \subseteq MapsOf(packageJson, n)

\* a written manifest to which the run added a package, for a dependency
\* list that held a package declared in one map beforehand
C10_Witness ==
    /\ Written
    /\ \E n \in AllNames :
          MapsOf(InputManifest, n) = {} /\ MapsOf(WrittenManifest, n) = {"dependencies"}
    /\ \E i \in DOMAIN graphDeps : Cardinality(MapsOf(InputManifest, graphDeps[i].name)) = 1

----------------------------------------------------------------------------
(* Claims about the dependency classifier, checked under SpecBundle.        *)

Classified == pcB \in {"info", "merge", "done"} /\ outcomeB # Rejected
NpmDepNames == {projectInfo.npmDeps[j].packageName : j \in DOMAIN projectInfo.npmDeps}

\* C11: for every library dependency L the classifier keeps, the helper
\* packages the helper resolver returns for L are among the classifier's
\* npm-deps.
C11_LibHelpersAmongNpmDeps ==
    Classified =>
        \A i \in DOMAIN projectInfo.libDeps :
            \A t \in Range(getHelperDependenciesFromProjectGraph(
                               projectInfo.libDeps[i].packageName)) :
                helperPackageName(t) \in NpmDepNames

----------------------------------------------------------------------------
(* Further claims about NpmConfManager, checked under SpecConf.             *)

\* C12: after restore(location), for every captured (key, location) pair, the
\* key is absent when the captured value was absent and otherwise holds
\* exactly the captured value, a present but falsy one included.
C12_RestoreWritesBackCaptured ==
    (lastCall.op = "restore" /\ lastCall.ok) =>
        \A k \in Keys :
            Captured(<<k, lastCall.location>>) =>
                npmrc[lastCall.location][k] = Snapshot(<<k, lastCall.location>>)

----------------------------------------------------------------------------
(* Claims about the termination handler, checked under SpecSession.         *)

\* C13: every firing of processExitListener, whatever event fired it and
\* whatever argument the event passed, calls kill on the forked child when
\* there is one and then reaches restoreAll.
C13_EveryFiringReachesRestoreAll ==
    \A i \in DOMAIN listenerRuns :
        /\ listenerRuns[i].restoreAll
        /\ childProcess =>
              \E j \in DOMAIN childSignals : childSignals[j] = listenerRuns[i].arg

\* C14: an error raised by restoreAll inside processExitListener is caught
\* in the listener: a firing that reached restoreAll, after the child has
\* been signalled, returns normally whether or not restoreAll threw.
C14_RestoreErrorNeverPropagates ==
    \A i \in DOMAIN listenerRuns :
        listenerRuns[i].restoreAll => ~listenerRuns[i].threw

\* a firing with a forked child, signalled, in which an npm config command
\* of restoreAll failed
C14_Witness ==
    /\ childProcess
    /\ \E i \in DOMAIN listenerRuns :
          /\ listenerRuns[i].caught
          /\ \E j \in DOMAIN childSignals : childSignals[j] = listenerRuns[i].arg

----------------------------------------------------------------------------
(* Claims about restoreAll, checked under SpecConf.                         *)

\* what set leaves at a captured pair when restore passes it the snapshot
RestoredValue(p) == IF Falsy(Snapshot(p)) THEN Undefined ELSE Snapshot(p)

\* the locations with a captured pair that does not hold its restored value
Unrestored ==
    {l \in Locations :
        \E k \in Keys : Captured(<<k, l>>) /\ npmrc[l][k] # RestoredValue(<<k, l>>)}

\* C15: restoreAll restores every location that has a captured pair, and a
\* failure while restoring one location does not keep the other locations
\* from being restored: after restoreAll no location is left unrestored,
\* except the one whose npm config command failed.
C15_LocationsRestoredIndependently ==
    lastCall.op = "restoreAll" =>
        Cardinality(Unrestored) <= (IF lastCall.ok THEN 0 ELSE 1)

----------------------------------------------------------------------------
(* Claims about configureNpm and createVerdaccioConfig, checked under       *)
(* SpecSession.                                                             *)

\* configureNpm has returned and no termination listener has run since
ConfigureNpmDone ==
    /\ pc \in {"register", "fork", "waiting"} \/ (pc = "done" /\ result.state = "returned")
    /\ listenerRuns = <<>>

LocalRegistryUrl == "http://localhost:" \o ToString(options.port) \o "/"
LocalAuthTokenKey == "//localhost:" \o ToString(options.port) \o "/:_authToken"
RegistryKeys == {"registry"} \cup {"@" \o scopes[i] \o ":registry" : i \in DOMAIN scopes}

\* C16: after configureNpm completes, at options.location the default
\* registry key and the @scope:registry key of every detected scope hold
\* http://localhost:<port>/ and the auth-token key of that host and port
\* holds the fixed token; no other key and no other location is ever
\* written by the session.
C16_ConfigureNpmWritesLocalRegistry ==
    /\ ConfigureNpmDone =>
          /\ \A k \in RegistryKeys : npmrc[options.location][k] = LocalRegistryUrl
          /\ npmrc[options.location][LocalAuthTokenKey] = "secretVerdaccioToken"
    /\ \A l \in Locations, k \in AllKeys :
          (l # options.location \/ k \notin RegistryKeys \cup {LocalAuthTokenKey}) =>
              npmrc[l][k] = preSession[l][k]

\* configureNpm has completed for a workspace with a scope, at the project
\* location and the second port
C16_Witness ==
    /\ ConfigureNpmDone
    /\ scopes # <<>>
    /\ options = [location |-> "project", port |-> 4874]
    /\ npmrc # preSession

----------------------------------------------------------------------------
(* Claims about createVerdaccioConfig, checked under SpecVerdaccio.         *)

ConfigBuilt == pc = "configured"
HasValue(item) == item.value \notin {Undefined, ""}
ItemsWithValue == {i \in DOMAIN npmRegistryConfig : HasValue(npmRegistryConfig[i])}
PackagePattern(item) == IF item.key = "registry" THEN "**" ELSE "@" \o item.name \o "/*"

\* C17 as stated: exactly one uplink per item whose effective value is
\* non-empty, with that value as its url, and one package rule per item
\* (@scope/* for a scope, ** for the default) whose proxy is the item's own
\* uplink.
C17_UplinkAndRulePerItem ==
    ConfigBuilt =>
        /\ Len(configFile.uplinks) = Cardinality(ItemsWithValue)
        /\ \A i \in ItemsWithValue :
              /\ MapHas(configFile.uplinks, npmRegistryConfig[i].name)
              /\ MapGet(configFile.uplinks, npmRegistryConfig[i].name) = npmRegistryConfig[i].value
        /\ Len(configFile.packages) = Len(npmRegistryConfig)
        /\ \A i \in DOMAIN npmRegistryConfig :
              /\ MapHas(configFile.packages, PackagePattern(npmRegistryConfig[i]))
              /\ MapGet(configFile.packages, PackagePattern(npmRegistryConfig[i]))
                    = npmRegistryConfig[i].name
              /\ MapHas(configFile.uplinks, npmRegistryConfig[i].name)

\* C17, amended: every item whose effective value is non-empty gets an uplink
\* under its name and one package rule (@scope/* or **) whose proxy is that
\* name; an item whose value is empty or absent gets neither.  Uplinks are
\* keyed by item name and hold as url the value of the last non-empty item of
\* that name: one uplink per non-empty item with its own value, unless a
\* scope is itself named npm, which then shares the default's uplink.
C17_UplinkAndRulePerItemWithValue ==
    ConfigBuilt =>
        /\ Len(configFile.uplinks) =
              Cardinality({npmRegistryConfig[i].name : i \in ItemsWithValue})
        /\ \A i \in ItemsWithValue :
              /\ MapHas(configFile.uplinks, npmRegistryConfig[i].name)
              /\ \/ MapGet(configFile.uplinks, npmRegistryConfig[i].name)
                       = npmRegistryConfig[i].value
                 \/ \E j \in ItemsWithValue :
                       /\ j > i
                       /\ npmRegistryConfig[j].name = npmRegistryConfig[i].name
                       /\ npmRegistryConfig[i].name = "npm"
                       /\ MapGet(configFile.uplinks, npmRegistryConfig[i].name)
                             = npmRegistryConfig[j].value
        /\ Len(configFile.packages) = Cardinality(ItemsWithValue)
        /\ \A i \in DOMAIN npmRegistryConfig :
              IF i \in ItemsWithValue
              THEN /\ MapHas(configFile.packages, PackagePattern(npmRegistryConfig[i]))
                   /\ MapGet(configFile.packages, PackagePattern(npmRegistryConfig[i]))
                         = npmRegistryConfig[i].name
              ELSE ~MapHas(configFile.packages, PackagePattern(npmRegistryConfig[i]))

\* a configuration built from a scope with a registry of its own, a scope
\* with none, and a default registry
C17_Witness ==
    /\ ConfigBuilt
    /\ Len(npmRegistryConfig) = 3
    /\ \E i, j \in DOMAIN npmRegistryConfig :
          /\ HasValue(npmRegistryConfig[i]) /\ npmRegistryConfig[i].key # "registry"
          /\ ~HasValue(npmRegistryConfig[j])
          /\ HasValue(npmRegistryConfig[3])
          /\ npmRegistryConfig[3].value # npmRegistryConfig[i].value

----------------------------------------------------------------------------
(* Claims about the order of merging, checked under SpecBundle.             *)

LibDepNames == [i \in DOMAIN projectInfo.libDeps |-> projectInfo.libDeps[i].packageName]
LibsMerged == libIdx > Len(projectInfo.libDeps)
NpmsMerged == npmIdx > Len(projectInfo.npmDeps)

\* the lib-deps the merger vendors: the undeclared ones, each once, in input order
ToBundle == Dedupe(SelectSeq(LibDepNames, LAMBDA n : MapsOf(InputManifest, n) = {}))

\* C18: updateDependencies2 processes every lib-dep before any npm-dep, each
\* list in input order: an undeclared name that is in both lists becomes a
\* bundled dependency with the vendored version, its npm-dep being skipped,
\* and the entries appended to bundleDependencies are in lib-dep input order.
C18_LibDepsFirstInInputOrder ==
    Merging =>
        /\ npmIdx > 1 => LibsMerged
        /\ appended = SubSeq(ToBundle, 1, Len(appended))
        /\ LibsMerged =>
              /\ appended = ToBundle
              /\ packageJson.bundleDependencies = InputManifest.bundleDependencies \o ToBundle
        /\ (LibsMerged /\ NpmsMerged) =>
              \A n \in Range(LibDepNames) \cap NpmDepNames :
                  MapsOf(InputManifest, n) = {} =>
                      /\ n \in Range(appended)
                      /\ packageJson.dependencies[n] = VendoredVersion(n)
                      /\ Written => Prop(WrittenManifest.dependencies, n) = VendoredVersion(n)

\* a written manifest for an undeclared package that was both a lib-dep and
\* an npm-dep with a version in the root manifest
C18_Witness ==
    /\ Written
    /\ \E n \in Range(LibDepNames) \cap NpmDepNames :
          /\ MapsOf(InputManifest, n) = {}
          /\ rootVersion(n) # Undefined
          /\ VendoredVersion(n) = LibVersion

----------------------------------------------------------------------------
(* Claims about repeated termination events, checked under SpecSession.     *)

RestoreAllRuns == {i \in DOMAIN listenerRuns : listenerRuns[i].restoreAll}

\* C19: in a registry session restoreAll runs at most once: after it has run
\* for one termination event, a later event (the exit event after SIGINT)
\* does not apply the snapshots again.
C19_RestoreAllRunsOnce == Cardinality(RestoreAllRuns) <= 1

----------------------------------------------------------------------------
(* Claims about a second invocation, checked under SpecReentry.             *)

\* two invocations have each forked a child, the second before any
\* termination handler had fired
SecondChildForked ==
    /\ Len(invocations) >= 2
    /\ invocations[1].child = 1
    /\ invocations[2].child = 2
    /\ invocations[2].firedBefore = 0

\* C20: when runExecutor is invoked a second time before any termination
\* handler has fired, the module's child handle refers to the second child
\* only: every later handler firing signals the second child, and the first
\* forked child is never signalled.
C20_FirstChildNeverSignalled ==
    SecondChildForked =>
        /\ handle # 1
        /\ \A k \in DOMAIN killed : killed[k].child # 1
        /\ Len(invocations) = 2 =>
              /\ handle = 2
              /\ \A k \in DOMAIN killed : killed[k].child = 2

\* both children forked, and a later event has made both listeners signal
C20_Witness ==
    /\ SecondChildForked
    /\ Len(invocations) = 2
    /\ Len(killed) >= 2
    /\ \A k \in DOMAIN killed : killed[k].child = 2

----------------------------------------------------------------------------
(* Claims about the manifest on disk and a failing vendoring copy, checked  *)
(* under SpecBundle.                                                        *)

\* the files of a library's built folder are under its folder in node_modules
VendoredInPlace(name) ==
    LET to == publishNodeModulesPath \o PackagePath(name)
    IN /\ directoryExists(fs, to)
       /\ FilesUnder(NodeAt(fsBefore, libDistPath(name))) \subseteq FilesUnder(NodeAt(fs, to))

\* C21: the destination manifest is written at most once, and only after
\* every lib-dep and npm-dep has been processed; when a vendoring copy throws
\* during merging the manifest on disk is the one merging began with, the
\* libraries vendored before the failure are still in place, and the run
\* returns {success: false}.
C21_ManifestWrittenLastOrNotAtAll ==
    /\ manifestWrites <= 1
    /\ Written => (pcB = "done" /\ LibsMerged /\ NpmsMerged)
    /\ copyThrew = "vendor" =>
          /\ outcomeB.state = "resolved" /\ ~outcomeB.success
          /\ ~Written
          /\ WrittenManifest = projectInfo.publishPackageJson
          /\ \A n \in Range(appended) : VendoredInPlace(n)

\* the copy of the second library throws after the first was vendored
C21_Witness ==
    /\ copyThrew = "vendor"
    /\ pcB = "done"
    /\ appended # <<>>
    /\ libIdx = 2

----------------------------------------------------------------------------
(* Claims about the order of registration and fork, checked under           *)
(* SpecSession.                                                             *)

\* C22: whenever the child process has been forked, processExitListener is
\* registered for exit, SIGTERM, SIGINT and SIGHUP and the generated
\* verdaccio configuration file has been written.
C22_ForkedOnlyWithHandlers ==
    childProcess =>
        /\ {"exit", "SIGTERM", "SIGINT", "SIGHUP"} \subseteq listeners
        /\ pc \in {"waiting", "done"}
        /\ configFile = createVerdaccioConfig(npmRegistryConfig)

\* the child is forked and runExecutor awaits it
C22_Witness ==
    /\ childProcess
    /\ pc = "waiting"
    /\ launch = "pending"

----------------------------------------------------------------------------
(* Claims about repeated restoration, checked under SpecConf.               *)

\* C23: restoreAll is idempotent: after a restoreAll in which no npm config
\* command failed, a further restoreAll in which none fails leaves the npm
\* configuration and the snapshot map as they are.
C23_RestoreAllIdempotent ==
    (lastCall.op = "restoreAll" /\ lastCall.ok) =>
        LET again == restoreAll(Mgr(NoFail))
        IN /\ ~again.threw
           /\ again.rc = npmrc
           /\ again.ovl = originalValuesForLocations

\* restoreAll has returned with a snapshot that differs from the value last
\* written, in both locations
C23_Witness ==
    /\ lastCall.op = "restoreAll"
    /\ lastCall.ok
    /\ \A l \in Locations : \E k \in Keys :
          /\ <<k, l>> \in written
          /\ Captured(<<k, l>>)
          /\ preSet[<<k, l>>] # npmrc[l][k]

====
